---- MODULE Spec2Model ----
(***************************************************************************)
(* Catalog index and calibration engine of                                 *)
(* backend/app/services/product_index.py (FastProductIndex).               *)
(*                                                                         *)
(* Strings are sequences of one-character strings.  Scores are exact       *)
(* rationals held as integers in units of 1/Scale; the rounding of the     *)
(* binary floating-point arithmetic is not modelled.  A Python set of small *)
(* ints (ids 1..7, hash(i) = i, table of at least 8 slots) is iterated in  *)
(* ascending order by CPython, so every loop over a set of ids is modelled *)
(* as a loop over the ids in ascending order.                              *)
(***************************************************************************)
EXTENDS Integers, Sequences, FiniteSets, TLC

VARIABLES
    HAS_PYPINYIN,    \* whether the optional pypinyin import succeeded
    by_name,         \* name -> Product
    by_name_lower,   \* lower-cased name -> Product
    by_id,           \* id -> Product
    by_code,         \* code -> Product
    name_trie,       \* Trie over names
    pinyin_trie,     \* Trie over name_pinyin
    initials_trie,   \* Trie over name_initials
    char_index,      \* character -> set of ids
    bigram_index,    \* bigram -> set of ids
    by_category,     \* category -> list of ids
    products,        \* id -> Product
    total_count,     \* number of add_product calls
    fed,             \* position in Catalog of the last row given to add_product
    out,             \* the last call on the index and what it returned
    prev,            \* what the call before returned, when it was the same calibrate call
    building,        \* the index instance a rebuild is filling, or NoBuild
    pc,              \* the block of add_product the rebuild has just run, or "idle"
    skills,          \* SkillRegistry.skills of the first registry: id -> Skill
    _initialized,    \* SkillRegistry._initialized of the first registry
    storage,         \* the file at the storage path
    fresh,           \* the skills of a fresh registry on the same path, initialized
    trie,            \* a Trie of its own
    inserted,        \* the (word, id) pairs Trie.insert was called with on it
    trie_out         \* what the last search_prefix or exact_match on it returned

index == <<by_name, by_name_lower, by_id, by_code, name_trie, pinyin_trie,
           initials_trie, char_index, bigram_index, by_category, products,
           total_count>>

registry == <<skills, _initialized, storage, fresh>>

trie_state == <<trie, inserted, trie_out>>

vars == <<HAS_PYPINYIN, by_name, by_name_lower, by_id, by_code, name_trie,
          pinyin_trie, initials_trie, char_index, bigram_index, by_category,
          products, total_count, fed, out, prev, building, pc, registry, trie_state>>

-----------------------------------------------------------------------------
(* Bounds *)

MaxProducts == 5     \* add_product calls in one run
MaxLimit == 2        \* largest limit given to search directly

-----------------------------------------------------------------------------
(* Characters and Python string operations *)

HanBa == "[ba]"      \* one Han character whose reading is "ba"
Sup2 == "[^2]"       \* SUPERSCRIPT TWO: isdigit() is True, int() raises ValueError
Space == " "

Min(a, b) == IF a <= b THEN a ELSE b
Max(a, b) == IF a >= b THEN a ELSE b

\* results[:n], list(ids)[:n]
Take(s, n) == SubSeq(s, 1, Min(n, Len(s)))

\* str.lower(), one character
LowerChar(c) ==
    CASE c = "A" -> "a"
      [] c = "B" -> "b"
      [] OTHER -> c

\* str.lower()
lower(s) == [i \in 1..Len(s) |-> LowerChar(s[i])]

\* str.isdigit(): non-empty and every character has the Unicode digit property
isdigit(s) == Len(s) > 0 /\ \A i \in 1..Len(s) : s[i] \in {"1", Sup2}

\* int(s) accepts decimal digits only
IntParses(s) == \A i \in 1..Len(s) : s[i] = "1"

RECURSIVE IntValue(_)
IntValue(s) ==
    IF s = <<>> THEN 0
    ELSE 10 * IntValue(SubSeq(s, 1, Len(s) - 1)) + 1

RECURSIVE lstrip(_)
lstrip(s) == IF s # <<>> /\ Head(s) = Space THEN lstrip(Tail(s)) ELSE s

RECURSIVE rstrip(_)
rstrip(s) ==
    IF s # <<>> /\ s[Len(s)] = Space THEN rstrip(SubSeq(s, 1, Len(s) - 1)) ELSE s

\* the test "not raw_text.strip()" written as "not raw_text"
strip_missing(s) == s

\* str.strip()
strip(s) == rstrip(lstrip(s))

\* q in name (substring test)
IsSubstring(q, name) ==
    \E i \in 1..(Len(name) - Len(q) + 1) : SubSeq(name, i, i + Len(q) - 1) = q

CharsOf(s) == {s[i] : i \in 1..Len(s)}

\* name[i:i+2] for i in range(len(name) - 1)
BigramsOf(s) == {SubSeq(s, i, i + 1) : i \in 1..(Len(s) - 1)}

RECURSIVE Concat(_)
Concat(segs) == IF segs = <<>> THEN <<>> ELSE Head(segs) \o Concat(Tail(segs))

\* the Han characters in use, each with the syllable pypinyin gives for it
Han ==
    (HanBa :> <<"b", "a">>)
    @@ ("[hong]" :> <<"h", "o", "n", "g">>) @@ ("[fu]" :> <<"f", "u">>)
    @@ ("[shi]" :> <<"s", "h", "i">>) @@ ("[tu]" :> <<"t", "u">>)
    @@ ("[ping]" :> <<"p", "i", "n", "g">>) @@ ("[guo]" :> <<"g", "u", "o">>)
    @@ ("[huang]" :> <<"h", "u", "a", "n", "g">>) @@ ("[jin]" :> <<"j", "i", "n">>)
    @@ ("[qing]" :> <<"q", "i", "n", "g">>)

IsHan(c) == c \in DOMAIN Han

RECURSIVE NonHanRun(_)
NonHanRun(s) ==
    IF s = <<>> \/ IsHan(Head(s)) THEN <<>> ELSE <<Head(s)>> \o NonHanRun(Tail(s))

\* pypinyin.lazy_pinyin(s, style=NORMAL): one syllable per Han character,
\* every maximal run of other characters kept as one segment
RECURSIVE lazy_pinyin(_)
lazy_pinyin(s) ==
    IF s = <<>> THEN <<>>
    ELSE IF IsHan(Head(s)) THEN <<Han[Head(s)]>> \o lazy_pinyin(Tail(s))
    ELSE LET run == NonHanRun(s)
         IN  <<run>> \o lazy_pinyin(SubSeq(s, Len(run) + 1, Len(s)))

\* dict[k] = v
Put(d, k, v) == [x \in DOMAIN d \cup {k} |-> IF x = k THEN v ELSE d[x]]

\* list(ids) of a set of small ints: ascending
RECURSIVE SetAsc(_)
SetAsc(S) ==
    IF S = {} THEN <<>>
    ELSE LET m == CHOOSE x \in S : \A y \in S : x <= y
         IN  <<m>> \o SetAsc(S \ {m})

-----------------------------------------------------------------------------
(* Product *)

\* Product(...) with __post_init__
Product(row) ==
    LET segs == lazy_pinyin(row.name)
        py == HAS_PYPINYIN /\ row.name # <<>>
    IN  [id |-> row.id, code |-> row.code, name |-> row.name,
         category |-> row.category, unit |-> row.unit, price |-> row.price,
         name_lower |-> lower(row.name),
         name_pinyin |-> IF py THEN Concat(segs) ELSE <<>>,
         name_initials |-> IF py THEN [i \in 1..Len(segs) |-> segs[i][1]] ELSE <<>>]

Row(id, name, code, category, price) ==
    [id |-> id, name |-> name, code |-> code, category |-> category,
     unit |-> "kg", price |-> price]

\* the names and the misread text of the apple scenario
HongFuShiPingGuo == <<"[hong]", "[fu]", "[shi]", "[ping]", "[guo]">>
HuangJinFuShiPingGuo == <<"[huang]", "[jin]", "[fu]", "[shi]", "[ping]", "[guo]">>
QingPingGuo == <<"[qing]", "[ping]", "[guo]">>
HongFuTuPingGuo == <<"[hong]", "[fu]", "[tu]", "[ping]", "[guo]">>

\* a name of eight characters that starts with "ab"
LongName == <<"a", "b", "c", "c", "c", "c", "c", "c">>

\* The rows add_product is called with, in sheet order; any row may be left
\* out.  The three apples are a sheet of their own, and so are the last two
\* rows.
Catalog == <<
    Row(1, <<"a", "b", "c">>, <<>>,           "k1", 2),
    Row(2, <<"a", "b">>,      <<"A", "B">>,   "k2", 0),
    Row(3, <<"a">>,           <<"1">>,        "k1", 2),
    Row(4, <<"a", "b">>,      <<>>,           "k1", 2),
    Row(5, <<"a", "c", "b">>, <<>>,           "k2", 0),
    Row(6, <<"a", HanBa>>,    <<>>,           "k2", 2),
    Row(1, <<"A", "b">>,      <<"a", "b">>,   "k2", 2),
    Row(6, <<>>,              <<Sup2>>,       "",   2),
    Row(7, <<Sup2>>,          <<>>,           "k1", 2),
    Row(1, HongFuShiPingGuo,     <<>>,        "k1", 2),
    Row(2, HuangJinFuShiPingGuo, <<>>,        "k1", 2),
    Row(3, QingPingGuo,          <<>>,        "k2", 2),
    Row(1, LongName,             <<>>,        "k1", 2),
    Row(2, <<"c", "a", "b">>,    <<>>,        "k1", 2)
>>

\* the sheet a row is imported from; one import reads one sheet
SheetOf(r) ==
    IF Catalog[r].name # <<>> /\ IsHan(Catalog[r].name[1]) THEN "apples"
    ELSE IF Catalog[r].name \in {LongName, <<"c", "a", "b">>} THEN "long"
    ELSE "rows"

-----------------------------------------------------------------------------
(* Trie *)

EmptyNode == [is_end |-> FALSE, product_ids |-> {}]

\* Trie.__init__: a trie is the map from the path of each node to the node
NewTrie == [p \in {<<>>} |-> EmptyNode]

\* Trie.insert that records the id at the last node only
TrieInsert_at_end_only(t, word, product_id) ==
    Put(t, word, [is_end |-> TRUE,
                  product_ids |-> (IF word \in DOMAIN t THEN t[word].product_ids ELSE {})
                                  \cup (IF word = <<>> THEN {} ELSE {product_id})])

\* Trie.insert
TrieInsert(t, word, product_id) ==
    LET walked == {SubSeq(word, 1, k) : k \in 1..Len(word)}
        node(p) == IF p \in DOMAIN t THEN t[p] ELSE EmptyNode
    IN  [p \in DOMAIN t \cup walked |->
            [is_end |-> node(p).is_end \/ p = word,
             product_ids |-> IF p \in walked
                             THEN node(p).product_ids \cup {product_id}
                             ELSE node(p).product_ids]]

\* Trie.search_prefix
search_prefix(t, prefix) ==
    IF prefix \in DOMAIN t THEN t[prefix].product_ids ELSE {}

\* Trie.exact_match
exact_match(t, word) ==
    IF word \in DOMAIN t /\ t[word].is_end THEN t[word].product_ids ELSE {}

-----------------------------------------------------------------------------
(* FastProductIndex.__init__ and add_product *)

EmptyDict == [x \in {} |-> {}]

\* no file at the storage path of the SkillRegistry
NoFile == [exists |-> FALSE, data |-> EmptyDict]

\* no fresh SkillRegistry made yet
NoRegistry == [made |-> FALSE, skills |-> EmptyDict]

NoCall == [op |-> "none"]

NoBuild == [op |-> "none"]

\* FastProductIndex(): a new, empty instance
NewIndex ==
    [by_name |-> EmptyDict, by_name_lower |-> EmptyDict, by_id |-> EmptyDict,
     by_code |-> EmptyDict, name_trie |-> NewTrie, pinyin_trie |-> NewTrie,
     initials_trie |-> NewTrie, char_index |-> EmptyDict, bigram_index |-> EmptyDict,
     by_category |-> EmptyDict, products |-> EmptyDict, total_count |-> 0]

\* the instance the module-level name product_index refers to
ActiveIndex ==
    [by_name |-> by_name, by_name_lower |-> by_name_lower, by_id |-> by_id,
     by_code |-> by_code, name_trie |-> name_trie, pinyin_trie |-> pinyin_trie,
     initials_trie |-> initials_trie, char_index |-> char_index,
     bigram_index |-> bigram_index, by_category |-> by_category,
     products |-> products, total_count |-> total_count]

\* the instance product_index refers to after the step is ix
SetActiveIndex(ix) ==
    /\ by_name' = ix.by_name
    /\ by_name_lower' = ix.by_name_lower
    /\ by_id' = ix.by_id
    /\ by_code' = ix.by_code
    /\ name_trie' = ix.name_trie
    /\ pinyin_trie' = ix.pinyin_trie
    /\ initials_trie' = ix.initials_trie
    /\ char_index' = ix.char_index
    /\ bigram_index' = ix.bigram_index
    /\ by_category' = ix.by_category
    /\ products' = ix.products
    /\ total_count' = ix.total_count

Init ==
    /\ HAS_PYPINYIN \in BOOLEAN
    /\ by_name = NewIndex.by_name
    /\ by_name_lower = NewIndex.by_name_lower
    /\ by_id = NewIndex.by_id
    /\ by_code = NewIndex.by_code
    /\ name_trie = NewIndex.name_trie
    /\ pinyin_trie = NewIndex.pinyin_trie
    /\ initials_trie = NewIndex.initials_trie
    /\ char_index = NewIndex.char_index
    /\ bigram_index = NewIndex.bigram_index
    /\ by_category = NewIndex.by_category
    /\ products = NewIndex.products
    /\ total_count = NewIndex.total_count
    /\ fed = 0
    /\ out = NoCall
    /\ prev = NoCall
    /\ building = NoBuild
    /\ pc = "idle"
    /\ skills = EmptyDict
    /\ _initialized = FALSE
    /\ storage = NoFile
    /\ fresh = NoRegistry
    /\ trie = NewTrie
    /\ inserted = {}
    /\ trie_out = NoCall

\* defaultdict(set): index[k].add(pid) for every k in keys
AddPostings(idx, keys, pid) ==
    [k \in DOMAIN idx \cup keys |->
        (IF k \in DOMAIN idx THEN idx[k] ELSE {}) \cup (IF k \in keys THEN {pid} ELSE {})]

\* by_category[category].append(pid)
AppendCategory(idx, category, pid) ==
    Put(idx, category, (IF category \in DOMAIN idx THEN idx[category] ELSE <<>>) \o <<pid>>)

\* add_product, Layer 1: the exact indexes
add_product_exact(ix, product) ==
    [ix EXCEPT !.by_name = Put(@, product.name, product),
               !.by_name_lower = Put(@, product.name_lower, product),
               !.by_id = Put(@, product.id, product),
               !.by_code = IF product.code # <<>> THEN Put(@, product.code, product) ELSE @]

\* add_product, Layer 2: the tries
add_product_tries(ix, product) ==
    [ix EXCEPT !.name_trie = TrieInsert(@, product.name, product.id),
               !.pinyin_trie = IF product.name_pinyin # <<>>
                               THEN TrieInsert(@, product.name_pinyin, product.id) ELSE @,
               !.initials_trie = IF product.name_initials # <<>>
                                 THEN TrieInsert(@, product.name_initials, product.id) ELSE @]

\* add_product, Layer 3: the postings
add_product_postings(ix, product) ==
    [ix EXCEPT !.char_index = AddPostings(@, CharsOf(product.name), product.id),
               !.bigram_index = AddPostings(@, BigramsOf(product.name), product.id)]

\* add_product: the category index
add_product_category(ix, product) ==
    [ix EXCEPT !.by_category = IF product.category # ""
                               THEN AppendCategory(@, product.category, product.id) ELSE @]

\* add_product: the store and the count
add_product_store(ix, product) ==
    [ix EXCEPT !.products = Put(@, product.id, product),
               !.total_count = @ + 1]

\* FastProductIndex.add_product
add_product(ix, product) ==
    add_product_store(
        add_product_category(
            add_product_postings(
                add_product_tries(
                    add_product_exact(ix, product), product), product), product), product)

\* add_product on the instance product_index refers to
AddProduct(r) ==
    /\ out = NoCall
    /\ building = NoBuild
    /\ total_count < MaxProducts
    /\ r > fed
    /\ SheetOf(r) = SheetOf(IF fed = 0 THEN r ELSE fed)
    /\ fed' = r
    /\ SetActiveIndex(add_product(ActiveIndex, Product(Catalog[r])))
    /\ UNCHANGED <<HAS_PYPINYIN, out, prev, building, pc, registry, trie_state>>

-----------------------------------------------------------------------------
(* Scores: the decimal n/100 is Pct(n); Scale is a multiple of every         *)
(* denominator the score formulas produce for lengths up to 12.              *)

Scale == 100 * 27720

Pct(n) == n * (Scale \div 100)

None == "<None>"

\* SearchResult
SearchResult(product, score, match_type, field) ==
    [product |-> product, score |-> score, match_type |-> match_type,
     matched_field |-> field]

\* seen_ids kept from one call to the next (a shared default or attribute)
search_start_shared ==
    [results |-> <<>>,
     seen_ids |-> IF out.op = "calibrate" /\ out.status = "ok" /\ out.result.product # <<>>
                  THEN {out.result.product[1].id}
                  ELSE {},
     err |-> "ok"]

\* results = [], seen_ids = set() at the start of every search
search_start == [results |-> <<>>, seen_ids |-> {}, err |-> "ok"]

NoFilter == [given |-> FALSE, ids |-> {}]

\* category_filter
CategoryFilter(category) ==
    IF category \notin {None, ""} /\ category \in DOMAIN by_category
    THEN [given |-> TRUE,
          ids |-> {by_category[category][i] : i \in 1..Len(by_category[category])}]
    ELSE NoFilter

\* truth value of category_filter (None and the empty set are false)
Filtering(cf) == cf.given /\ cf.ids # {}

\* search.add_result
add_result(st, product, score, match_type, field, cf) ==
    IF product.id \in st.seen_ids THEN st
    ELSE IF Filtering(cf) /\ product.id \notin cf.ids THEN st
    ELSE [st EXCEPT !.seen_ids = @ \cup {product.id},
                    !.results = Append(@, SearchResult(product, score, match_type, field))]

\* Layer 1, name: exact name, else lower-cased name
ExactName(st, query, cf) ==
    IF query \in DOMAIN by_name
    THEN add_result(st, by_name[query], Pct(100), "exact", "name", cf)
    ELSE IF lower(query) \in DOMAIN by_name_lower
    THEN add_result(st, by_name_lower[lower(query)], Pct(99), "exact", "name", cf)
    ELSE st

\* Layer 1, id: int(query) raises ValueError on a digit that is not decimal
ExactId(st, query, cf) ==
    IF ~isdigit(query) THEN st
    ELSE IF ~IntParses(query) THEN [st EXCEPT !.err = "ValueError"]
    ELSE IF IntValue(query) \in DOMAIN by_id
    THEN add_result(st, by_id[IntValue(query)], Pct(100), "exact", "id", cf)
    ELSE st

\* Layer 1, code
ExactCode(st, query, cf) ==
    IF query \in DOMAIN by_code
    THEN add_result(st, by_code[query], Pct(100), "exact", "code", cf)
    ELSE st

Layer1(st, query, cf) ==
    LET s1 == ExactId(ExactName(st, query, cf), query, cf)
    IN  IF s1.err # "ok" THEN s1 ELSE ExactCode(s1, query, cf)

\* min(0.95, 0.7 + score * 0.25), score = len(query) / len(name) if name else 0
PrefixScore(query, product) ==
    IF product.name = <<>> THEN Pct(70)
    ELSE Min(Pct(95), Pct(70) + (Len(query) * Scale) \div (4 * Len(product.name)))

\* Layer 2: the loop over prefix_ids
RECURSIVE PrefixLoop(_, _, _, _, _)
PrefixLoop(st, ids, query, limit, cf) ==
    IF ids = <<>> \/ Len(st.results) >= limit THEN st
    ELSE LET pid == Head(ids)
             s1 == IF pid \in DOMAIN products
                   THEN add_result(st, products[pid],
                                   PrefixScore(query, products[pid]), "prefix", "name", cf)
                   ELSE st
         IN  PrefixLoop(s1, Tail(ids), query, limit, cf)

Layer2(st, query, limit, cf) ==
    PrefixLoop(st, SetAsc(search_prefix(name_trie, query)), query, limit, cf)

\* common_ids = sets[0] & sets[1] & ...
RECURSIVE Intersect(_)
Intersect(sets) ==
    IF Len(sets) = 1 THEN sets[1] ELSE sets[1] \cap Intersect(Tail(sets))

\* min(0.9, 0.5 + score * 0.4), score = len(query) / len(name)
ContainsScore(query, product) ==
    Min(Pct(90), Pct(50) + (2 * Len(query) * Scale) \div (5 * Len(product.name)))

\* Layer 3: the loop over the bigram intersection
RECURSIVE BigramLoop(_, _, _, _, _)
BigramLoop(st, ids, query, limit, cf) ==
    IF ids = <<>> \/ Len(st.results) >= limit THEN st
    ELSE LET pid == Head(ids)
             s1 == IF pid \in DOMAIN products /\ IsSubstring(query, products[pid].name)
                   THEN add_result(st, products[pid],
                                   ContainsScore(query, products[pid]), "contains", "name", cf)
                   ELSE st
         IN  BigramLoop(s1, Tail(ids), query, limit, cf)

\* the postings of the bigrams of the query that the index has
BigramSets(query) ==
    LET present == SelectSeq([i \in 1..(Len(query) - 1) |-> SubSeq(query, i, i + 1)],
                             LAMBDA b : b \in DOMAIN bigram_index)
    IN  [i \in 1..Len(present) |-> bigram_index[present[i]]]

BigramStep(st, query, limit, cf) ==
    IF Len(query) >= 2 /\ BigramSets(query) # <<>>
    THEN BigramLoop(st, SetAsc(Intersect(BigramSets(query))), query, limit, cf)
    ELSE st

\* len(query) / len(name) * 0.6 without the cap
CharScore_uncapped(query, product) == (3 * Len(query) * Scale) \div (5 * Len(product.name))

\* min(0.7, len(query) / len(name) * 0.6)
CharScore(query, product) ==
    Min(Pct(70), (3 * Len(query) * Scale) \div (5 * Len(product.name)))

\* Layer 3: the loop over the single-character intersection; the division
\* by len(product.name) comes before add_result
RECURSIVE CharLoop(_, _, _, _, _)
CharLoop(st, ids, query, limit, cf) ==
    IF ids = <<>> \/ Len(st.results) >= limit THEN st
    ELSE LET pid == Head(ids)
         IN  IF pid \notin DOMAIN products
             THEN CharLoop(st, Tail(ids), query, limit, cf)
             ELSE IF products[pid].name = <<>>
             THEN [st EXCEPT !.err = "ZeroDivisionError"]
             ELSE CharLoop(add_result(st, products[pid], CharScore(query, products[pid]),
                                      "contains", "name", cf),
                           Tail(ids), query, limit, cf)

\* char_index.get(c, set()) for c in query
CharSets(query) ==
    [i \in 1..Len(query) |->
        IF query[i] \in DOMAIN char_index THEN char_index[query[i]] ELSE {}]

CharStep(st, query, limit, cf) ==
    IF Len(st.results) < limit /\ \A i \in 1..Len(query) : CharSets(query)[i] # {}
    THEN CharLoop(st, Take(SetAsc(Intersect(CharSets(query))), limit * 2), query, limit, cf)
    ELSE st

Layer3(st, query, limit, cf) == CharStep(BigramStep(st, query, limit, cf), query, limit, cf)

\* min(0.8, 0.4 + score * 0.4), score = len(query_pinyin) / len(name_pinyin) if name_pinyin else 0
PinyinScore(query_pinyin, product) ==
    IF product.name_pinyin = <<>> THEN Pct(40)
    ELSE Min(Pct(80), Pct(40) + (2 * Len(query_pinyin) * Scale) \div (5 * Len(product.name_pinyin)))

RECURSIVE PinyinLoop(_, _, _, _, _)
PinyinLoop(st, ids, query_pinyin, limit, cf) ==
    IF ids = <<>> \/ Len(st.results) >= limit THEN st
    ELSE LET pid == Head(ids)
             s1 == IF pid \in DOMAIN products
                   THEN add_result(st, products[pid],
                                   PinyinScore(query_pinyin, products[pid]), "pinyin", "pinyin", cf)
                   ELSE st
         IN  PinyinLoop(s1, Tail(ids), query_pinyin, limit, cf)

RECURSIVE InitialsLoop(_, _, _, _)
InitialsLoop(st, ids, limit, cf) ==
    IF ids = <<>> \/ Len(st.results) >= limit THEN st
    ELSE LET pid == Head(ids)
             s1 == IF pid \in DOMAIN products
                   THEN add_result(st, products[pid], Pct(50), "pinyin", "initials", cf)
                   ELSE st
         IN  InitialsLoop(s1, Tail(ids), limit, cf)

\* Layer 4
Layer4(st, query, limit, cf) ==
    IF ~HAS_PYPINYIN THEN st
    ELSE LET query_pinyin == Concat(lazy_pinyin(query))
             s1 == PinyinLoop(st, SetAsc(search_prefix(pinyin_trie, query_pinyin)),
                              query_pinyin, limit, cf)
         IN  IF Len(s1.results) < limit /\ Len(query) <= 6
             THEN InitialsLoop(s1,
                      SetAsc(search_prefix(initials_trie, Take(query_pinyin, Len(query)))),
                      limit, cf)
             ELSE s1

\* FastProductIndex._levenshtein_distance: one row of the table
RECURSIVE LevRow(_, _, _, _, _)
LevRow(previous_row, current_row, c1, s2, j) ==
    IF j > Len(s2) THEN current_row
    ELSE LET insertions == previous_row[j + 1] + 1
             deletions == current_row[j] + 1
             substitutions == previous_row[j] + (IF c1 # s2[j] THEN 1 ELSE 0)
         IN  LevRow(previous_row,
                    Append(current_row, Min(insertions, Min(deletions, substitutions))),
                    c1, s2, j + 1)

RECURSIVE LevRows(_, _, _, _)
LevRows(previous_row, s1, s2, i) ==
    IF i > Len(s1) THEN previous_row
    ELSE LevRows(LevRow(previous_row, <<i>>, s1[i], s2, 1), s1, s2, i + 1)

\* the difference of the lengths alone
_levenshtein_distance_of_lengths(a, b) == Max(Len(a), Len(b)) - Min(Len(a), Len(b))

\* FastProductIndex._levenshtein_distance
_levenshtein_distance(a, b) ==
    LET s1 == IF Len(a) < Len(b) THEN b ELSE a
        s2 == IF Len(a) < Len(b) THEN a ELSE b
    IN  IF Len(s2) = 0 THEN Len(s1)
        ELSE LevRows([k \in 1..(Len(s2) + 1) |-> k - 1], s1, s2, 1)[Len(s2) + 1]

\* list.sort(key=score, reverse=True): stable, descending
RECURSIVE SortByScore(_)
SortByScore(s) ==
    IF s = <<>> THEN <<>>
    ELSE LET rest == SortByScore(SubSeq(s, 1, Len(s) - 1))
             x == s[Len(s)]
             k == Cardinality({i \in 1..Len(rest) : rest[i].score >= x.score})
         IN  SubSeq(rest, 1, k) \o <<x>> \o SubSeq(rest, k + 1, Len(rest))

\* _fuzzy_search: the loop over the candidates
RECURSIVE FuzzyLoop(_, _, _)
FuzzyLoop(found, ids, query) ==
    IF ids = <<>> THEN found
    ELSE LET pid == Head(ids)
         IN  IF pid \notin DOMAIN products THEN FuzzyLoop(found, Tail(ids), query)
             ELSE LET product == products[pid]
                      distance == _levenshtein_distance(query, product.name)
                      max_len == Max(Len(query), Len(product.name))
                  IN  IF max_len > 0 /\ 2 * (max_len - distance) > max_len
                      THEN FuzzyLoop(
                               Append(found,
                                      [product |-> product,
                                       score |-> (7 * (max_len - distance) * Scale)
                                                 \div (10 * max_len)]),
                               Tail(ids), query)
                      ELSE FuzzyLoop(found, Tail(ids), query)

\* FastProductIndex._fuzzy_search
_fuzzy_search(query, limit, cf) ==
    LET hit == UNION {char_index[c] : c \in CharsOf(query) \cap DOMAIN char_index}
        candidates == IF Filtering(cf) THEN hit \cap cf.ids ELSE hit
    IN  Take(SortByScore(FuzzyLoop(<<>>, Take(SetAsc(candidates), 500), query)), limit)

RECURSIVE AddFuzzy(_, _, _)
AddFuzzy(st, found, cf) ==
    IF found = <<>> THEN st
    ELSE AddFuzzy(add_result(st, found[1].product, found[1].score, "fuzzy", "name", cf),
                  Tail(found), cf)

\* Layer 5 left out
Layer5_skipped(st, query, limit, cf) == st

\* Layer 5
Layer5(st, query, limit, cf) ==
    IF Len(st.results) < limit /\ Len(query) >= 2
    THEN AddFuzzy(st, _fuzzy_search(query, limit - Len(st.results), cf), cf)
    ELSE st

Returned(results, path) == [status |-> "ok", results |-> results, path |-> path]

Raised(err, path) == [status |-> err, results |-> <<>>, path |-> path]

\* FastProductIndex.search: path names the statement the call left by
search(query, limit, category) ==
    IF query = <<>> THEN Returned(<<>>, "empty")
    ELSE
    LET cf == CategoryFilter(category)
        s1 == Layer1(search_start, query, cf)
        s2 == Layer2(s1, query, limit, cf)
        s3 == Layer3(s2, query, limit, cf)
        s4 == Layer4(s3, query, limit, cf)
        s5 == Layer5(s4, query, limit, cf)
    IN  IF s1.err # "ok" THEN Raised(s1.err, "exact")
        ELSE IF Len(s1.results) >= limit THEN Returned(Take(s1.results, limit), "exact")
        ELSE IF Len(s2.results) >= limit THEN Returned(Take(s2.results, limit), "prefix")
        ELSE IF s3.err # "ok" THEN Raised(s3.err, "contains")
        ELSE IF Len(s3.results) >= limit THEN Returned(Take(s3.results, limit), "contains")
        ELSE IF Len(s4.results) >= limit THEN Returned(Take(s4.results, limit), "pinyin")
        ELSE Returned(Take(SortByScore(s5.results), limit), "sorted")

-----------------------------------------------------------------------------
(* calibrate *)

CalibrateLimit == 5        \* search(raw_text, limit=5, category=category)
AmbiguityGap == 15         \* top1.score - top2.score < 0.15
MaxCandidates == 3         \* results[:3]

NoSuggestion == [kind |-> "None", text |-> <<>>, names |-> <<>>, note |-> ""]

\* the f-strings of calibrate, kept as their parts
Suggestion(kind, text, names, note) ==
    [kind |-> kind, text |-> text, names |-> names, note |-> note]

\* CalibrationResult; product is <<>> for None
CalibrationResult(original, calibrated, product, confidence, match_type, suggestion, is_ambiguous, candidates) ==
    [original |-> original, calibrated |-> calibrated, product |-> product,
     confidence |-> confidence, match_type |-> match_type,
     suggestion |-> suggestion, is_ambiguous |-> is_ambiguous,
     candidates |-> candidates]

\* the branch for an exact top-1
ExactDecision(raw_text, results) ==
    LET top1 == results[1]
        product == top1.product
    IN  CalibrationResult(raw_text, product.name, <<product>>, top1.score, top1.match_type,
            IF product.price = 0
            THEN Suggestion("no_price", <<>>, <<product.name>>, "")
            ELSE NoSuggestion,
            FALSE, <<>>)

\* candidates cut to the top-1 name only
Candidates_top1(results) == <<results[1].product.name>>

\* candidates = [r.product.name for r in results[:3]]
Candidates(results) ==
    [i \in 1..Min(MaxCandidates, Len(results)) |-> results[i].product.name]

\* the branch for any other top-1
InexactDecision(raw_text, results) ==
    LET top1 == results[1]
        product == top1.product
        arrow == IF raw_text # product.name
                 THEN Suggestion("arrow", raw_text, <<product.name>>,
                          IF product.price = 0 THEN "no_price"
                          ELSE IF product.price > 0 THEN "unit_price" ELSE "")
                 ELSE NoSuggestion
        close == Len(results) > 1 /\ top1.score - results[2].score < Pct(AmbiguityGap)
        candidates == Candidates(results)
    IN  CalibrationResult(raw_text, product.name, <<product>>, top1.score, top1.match_type,
            IF close THEN Suggestion("maybe", raw_text, candidates, "") ELSE arrow,
            close,
            IF close THEN candidates ELSE <<>>)

\* FastProductIndex.calibrate
calibrate(raw_text, category) ==
    IF raw_text = <<>> \/ strip(raw_text) = <<>>
    THEN [status |-> "ok", searched |-> FALSE,
          result |-> CalibrationResult(raw_text, raw_text, <<>>, 0, "none",
                         Suggestion("input_empty", <<>>, <<>>, ""), FALSE, <<>>)]
    ELSE
    LET text == strip(raw_text)
        found == search(text, CalibrateLimit, category)
    IN  IF found.status # "ok"
        THEN [status |-> found.status, searched |-> TRUE, result |-> <<>>]
        ELSE IF found.results = <<>>
        THEN [status |-> "ok", searched |-> TRUE,
              result |-> CalibrationResult(text, text, <<>>, 0, "not_found",
                             Suggestion("not_in_catalog", text, <<>>, ""), FALSE, <<>>)]
        ELSE [status |-> "ok", searched |-> TRUE,
              result |-> IF found.results[1].match_type = "exact"
                            /\ found.results[1].score >= Pct(99)
                         THEN ExactDecision(text, found.results)
                         ELSE InexactDecision(text, found.results)]

-----------------------------------------------------------------------------
(* Calls on the index *)

Queries == {
    <<>>, <<"a">>, <<"a", "b">>, <<"A", "B">>, <<"A", "b">>, <<"a", "b", "c">>,
    <<"a", "c", "b">>, <<"a", HanBa>>, <<"b", "c">>, <<"a", "b", "d">>,
    <<"a", "b", "a">>, <<"1">>, <<Sup2>>, <<"a", "a">> }

Texts == Queries \cup { <<Space>>, <<Space, "a", "b", Space>>, HongFuTuPingGuo }

Categories == {None, "k2", "k9"}

\* ids given to get_by_id: registered and not
Ids == {Catalog[r].id : r \in 1..Len(Catalog)} \cup {0}

DefaultLimit == 5          \* search(query, limit=5, category=None)

Limits == (1..MaxLimit) \cup {DefaultLimit}

\* d[k] of a defaultdict: a missing key is inserted with the default
dict_getitem_default(d, k) == IF k \in DOMAIN d THEN d ELSE d @@ (k :> {})

\* the dict after d.get(k, default): not written
dict_get(d, k) == d

RECURSIVE dict_get_all(_, _)
dict_get_all(d, keys) ==
    IF keys = <<>> THEN d ELSE dict_get_all(dict_get(d, Head(keys)), Tail(keys))

\* char_index after search: every other read of a defaultdict is guarded by
\* `in`; the single-character step reads char_index with .get
char_index_after_search(query, limit, category) ==
    IF query = <<>> THEN char_index
    ELSE LET cf == CategoryFilter(category)
             s1 == Layer1(search_start, query, cf)
             s2 == Layer2(s1, query, limit, cf)
             sb == BigramStep(s2, query, limit, cf)
         IN  IF \/ s1.err # "ok"
                \/ Len(s1.results) >= limit
                \/ Len(s2.results) >= limit
                \/ Len(sb.results) >= limit
             THEN char_index
             ELSE dict_get_all(char_index, query)

char_index_after_calibrate(raw_text, category) ==
    IF raw_text = <<>> \/ strip(raw_text) = <<>> THEN char_index
    ELSE char_index_after_search(strip(raw_text), CalibrateLimit, category)

Search(query, limit, category) ==
    /\ out = NoCall
    /\ out' = [op |-> "search", query |-> query, limit |-> limit,
               category |-> category] @@ search(query, limit, category)
    /\ prev' = NoCall
    /\ char_index' = char_index_after_search(query, limit, category)
    /\ UNCHANGED <<HAS_PYPINYIN, by_name, by_name_lower, by_id, by_code, name_trie,
                   pinyin_trie, initials_trie, bigram_index, by_category, products,
                   total_count, fed, building, pc, registry, trie_state>>

\* calibrate, also as the second of two successive equal calls
Calibrate(raw_text, category) ==
    /\ \/ out = NoCall
       \/ /\ out.op = "calibrate"
          /\ out.text = raw_text
          /\ out.category = category
          /\ prev = NoCall
    /\ out' = [op |-> "calibrate", text |-> raw_text, category |-> category]
                  @@ calibrate(raw_text, category)
    /\ prev' = out
    /\ char_index' = char_index_after_calibrate(raw_text, category)
    /\ UNCHANGED <<HAS_PYPINYIN, by_name, by_name_lower, by_id, by_code, name_trie,
                   pinyin_trie, initials_trie, bigram_index, by_category, products,
                   total_count, fed, building, pc, registry, trie_state>>

\* an Optional value: <<>> for None
Optional(d, k) == IF k \in DOMAIN d THEN <<d[k]>> ELSE <<>>

\* FastProductIndex.get_by_id
GetById(product_id) ==
    /\ out = NoCall
    /\ out' = [op |-> "get_by_id", product_id |-> product_id,
               result |-> Optional(products, product_id)]
    /\ prev' = NoCall
    /\ products' = dict_get(products, product_id)
    /\ UNCHANGED <<HAS_PYPINYIN, by_name, by_name_lower, by_id, by_code, name_trie,
                   pinyin_trie, initials_trie, char_index, bigram_index, by_category,
                   total_count, fed, building, pc, registry, trie_state>>

\* FastProductIndex.get_by_name
GetByName(name) ==
    /\ out = NoCall
    /\ out' = [op |-> "get_by_name", name |-> name, result |-> Optional(by_name, name)]
    /\ prev' = NoCall
    /\ by_name' = dict_get(by_name, name)
    /\ UNCHANGED <<HAS_PYPINYIN, by_name_lower, by_id, by_code, name_trie, pinyin_trie,
                   initials_trie, char_index, bigram_index, by_category, products,
                   total_count, fed, building, pc, registry, trie_state>>

CategoryLimit == 100       \* get_by_category(category, limit=100)

\* FastProductIndex.get_by_category with the default limit
GetByCategory(category) ==
    LET ids == Take(IF category \in DOMAIN by_category THEN by_category[category] ELSE <<>>,
                    CategoryLimit)
        kept == SelectSeq(ids, LAMBDA pid : pid \in DOMAIN products)
    IN  /\ out = NoCall
        /\ out' = [op |-> "get_by_category", category |-> category,
                   result |-> [i \in 1..Len(kept) |-> products[kept[i]]]]
        /\ prev' = NoCall
        /\ by_category' = dict_get(by_category, category)
        /\ UNCHANGED <<HAS_PYPINYIN, by_name, by_name_lower, by_id, by_code, name_trie,
                       pinyin_trie, initials_trie, char_index, bigram_index, products,
                       total_count, fed, building, pc, registry, trie_state>>

\* FastProductIndex.get_categories and FastProductIndex.stats; the categories
\* are kept as a set
Stats ==
    /\ out = NoCall
    /\ out' = [op |-> "stats",
               categories |-> DOMAIN by_category,
               total_products |-> total_count,
               category_counts |-> [c \in DOMAIN by_category |-> Len(by_category[c])],
               unique_chars |-> Cardinality(DOMAIN char_index),
               bigrams |-> Cardinality(DOMAIN bigram_index)]
    /\ prev' = NoCall
    /\ UNCHANGED <<HAS_PYPINYIN, index, fed, building, pc, registry, trie_state>>

\* the caller is done with what the call returned
Done ==
    /\ out # NoCall
    /\ out' = NoCall
    /\ prev' = NoCall
    /\ UNCHANGED <<HAS_PYPINYIN, index, fed, building, pc, registry, trie_state>>

Next ==
    \/ \E r \in 1..Len(Catalog) : AddProduct(r)
    \/ \E q \in Queries, limit \in Limits, c \in Categories : Search(q, limit, c)
    \/ \E x \in Texts, c \in Categories : Calibrate(x, c)
    \/ \E i \in Ids : GetById(i)
    \/ \E n \in Queries : GetByName(n)
    \/ \E c \in Categories \ {None} : GetByCategory(c)
    \/ Stats
    \/ Done

Spec == Init /\ [][Next]_vars

-----------------------------------------------------------------------------
(* Catalog rebuild: a new instance is filled by add_product, one block of   *)
(* the method at a time, while readers call the active instance; the new    *)
(* instance becomes the active one when it is complete.                      *)

MaxRebuildRows == 2      \* add_product calls in one rebuild

\* the sheet the active catalog was imported from
ActiveSheet ==
    IF \E i \in DOMAIN products : products[i].name # <<>> /\ IsHan(products[i].name[1])
    THEN "apples"
    ELSE IF \E i \in DOMAIN products : products[i].name \in {LongName, <<"c", "a", "b">>}
    THEN "long"
    ELSE "rows"

\* the rebuild fills the live instance itself
Published_in_place(active, built, swap) == built

\* the instance readers use after a step of the rebuild
Published(active, built, swap) == IF swap THEN built ELSE active

RebuildBegin ==
    /\ building = NoBuild
    /\ building' = NewIndex
    /\ fed' = 0
    /\ pc' = "idle"
    /\ SetActiveIndex(Published(ActiveIndex, NewIndex, FALSE))
    /\ UNCHANGED <<HAS_PYPINYIN, out, prev, registry, trie_state>>

\* add_product(row r) on the new instance begins: its first block
RebuildAdd(r) ==
    /\ building # NoBuild
    /\ pc = "idle"
    /\ building.total_count < MaxRebuildRows
    /\ r > fed
    /\ IF fed # 0 THEN SheetOf(r) = SheetOf(fed)
       ELSE total_count = 0 \/ SheetOf(r) # ActiveSheet
    /\ fed' = r
    /\ pc' = "exact"
    /\ building' = add_product_exact(building, Product(Catalog[r]))
    /\ SetActiveIndex(Published(ActiveIndex, building', FALSE))
    /\ UNCHANGED <<HAS_PYPINYIN, out, prev, registry, trie_state>>

\* the next block of the add_product call in progress
RebuildContinue ==
    /\ building # NoBuild
    /\ pc # "idle"
    /\ LET product == Product(Catalog[fed])
       IN  \/ /\ pc = "exact"
              /\ building' = add_product_tries(building, product)
              /\ pc' = "tries"
           \/ /\ pc = "tries"
              /\ building' = add_product_postings(building, product)
              /\ pc' = "postings"
           \/ /\ pc = "postings"
              /\ building' = add_product_category(building, product)
              /\ pc' = "category"
           \/ /\ pc = "category"
              /\ building' = add_product_store(building, product)
              /\ pc' = "idle"
    /\ SetActiveIndex(Published(ActiveIndex, building', FALSE))
    /\ UNCHANGED <<HAS_PYPINYIN, fed, out, prev, registry, trie_state>>

\* the complete new instance becomes the active one
RebuildSwap ==
    /\ out = NoCall
    /\ building # NoBuild
    /\ pc = "idle"
    /\ building.total_count > 0
    /\ SetActiveIndex(Published(ActiveIndex, building, TRUE))
    /\ building' = NoBuild
    /\ UNCHANGED <<HAS_PYPINYIN, fed, out, prev, pc, registry, trie_state>>

NextRebuild ==
    \/ RebuildBegin
    \/ \E r \in 1..Len(Catalog) : RebuildAdd(r)
    \/ RebuildContinue
    \/ RebuildSwap
    \/ \E q \in Queries : Search(q, DefaultLimit, None)
    \/ \E x \in {<<"a", "b">>, HongFuTuPingGuo} : Calibrate(x, None)
    \/ Done

SpecRebuild == Init /\ [][NextRebuild]_vars

-----------------------------------------------------------------------------
(* VectorStoreService.calibrate_text of backend/app/services/knowledge_base.py: *)
(* the vector search and the reply of the calibration model are inputs.      *)
(* combined_score and the model's confidence are in percent; a confidence    *)
(* calibrate_text returns is in units of 1/10000.                            *)

MaxResults == 3            \* results the vector search returns

TopK == 5                  \* self.search(raw_text, top_k=5, category=category)
AmbiguityThreshold == 10   \* settings.AMBIGUITY_THRESHOLD = 0.10
HighConfidence == 85       \* best_score < 0.85
TextCandidates == 3        \* results[:3]
ReplyConfidenceDefault == 50   \* result.get('confidence', 0.5)
StillAmbiguous == 70       \* is_ambiguous = confidence < 0.7
NoMatchConfidence == 30    \* return raw_text, 0.3, True
FailureConfidence == 50    \* return raw_text, 0.5, False, None

Frac(percent) == percent * 100

RawText == "raw"

\* the texts of the results, by rank
Names == <<"n1", "n2", "n3", "n4", "n5">>

CombinedScores == {50, 80, 86, 95}

\* what self.search returns or raises: results sorted by combined_score
VectorFound ==
    {[status |-> "raise", results |-> <<>>]}
    \cup UNION {
        {[status |-> "ok",
          results |-> [i \in 1..n |-> [text |-> Names[i], combined_score |-> f[i]]]] :
            f \in {g \in [1..n -> CombinedScores] : \A i \in 1..(n - 1) : g[i] >= g[i + 1]}} :
        n \in 0..Min(MaxResults, TopK)}

\* what the call of the calibration model does: it raises, it times out, its
\* reply holds no JSON object, one that does not parse, one whose choice is
\* not a number, or a JSON object with a choice and a confidence
Replies ==
    {[kind |-> k, choice |-> 0, confidence |-> ReplyConfidenceDefault] :
        k \in {"raise", "timeout", "no_json", "bad_json", "bad_type"}}
    \cup {[kind |-> "json", choice |-> c, confidence |-> p] :
            c \in 0..(TextCandidates + 1), p \in {0, ReplyConfidenceDefault, 69, 70, 90, 100}}

LlmNone == [kind |-> "None"]

\* _llm_calibrate without its try/except
_llm_calibrate_unguarded(raw_text, candidates, reply) ==
    IF reply.kind \in {"raise", "timeout", "bad_json", "bad_type"} THEN [kind |-> "raise"]
    ELSE IF reply.kind = "no_json" THEN LlmNone
    ELSE IF reply.choice > 0 /\ reply.choice <= Len(candidates)
    THEN [kind |-> "tuple", text |-> candidates[reply.choice],
          confidence |-> reply.confidence,
          is_ambiguous |-> reply.confidence < StillAmbiguous]
    ELSE [kind |-> "tuple", text |-> raw_text, confidence |-> NoMatchConfidence,
          is_ambiguous |-> TRUE]

\* VectorStoreService._llm_calibrate
_llm_calibrate(raw_text, candidates, reply) ==
    IF reply.kind \in {"raise", "timeout"} THEN LlmNone
    ELSE IF reply.kind = "no_json" THEN LlmNone
    ELSE IF reply.kind \in {"bad_json", "bad_type"} THEN LlmNone
    ELSE IF reply.choice > 0 /\ reply.choice <= Len(candidates)
    THEN [kind |-> "tuple", text |-> candidates[reply.choice],
          confidence |-> reply.confidence,
          is_ambiguous |-> reply.confidence < StillAmbiguous]
    ELSE [kind |-> "tuple", text |-> raw_text, confidence |-> NoMatchConfidence,
          is_ambiguous |-> TRUE]

\* the tuple calibrate_text returns (candidates <<>> for None); escalated
\* tells whether _llm_calibrate was called
TextResult(text, confidence, is_ambiguous, candidates, escalated) ==
    [text |-> text, confidence |-> confidence, is_ambiguous |-> is_ambiguous,
     candidates |-> candidates, escalated |-> escalated]

\* VectorStoreService.calibrate_text
calibrate_text(raw_text, found, reply) ==
    IF found.status # "ok"
    THEN TextResult(raw_text, Frac(FailureConfidence), FALSE, <<>>, FALSE)
    ELSE IF found.results = <<>>
    THEN TextResult(raw_text, 0, FALSE, <<>>, FALSE)
    ELSE
    LET results == found.results
        best_match == results[1]
        best_score == best_match.combined_score
        close == /\ Len(results) >= 2
                 /\ best_score - results[2].combined_score < AmbiguityThreshold
        need_llm_confirm == close \/ best_score < HighConfidence
        top == Take(results, TextCandidates)
        candidates == [i \in 1..Len(top) |-> top[i].text]
        llm_result == _llm_calibrate(raw_text, candidates, reply)
    IN  IF need_llm_confirm /\ llm_result.kind = "raise"
        THEN TextResult(raw_text, Frac(FailureConfidence), FALSE, <<>>, TRUE)
        ELSE IF need_llm_confirm /\ llm_result.kind = "tuple"
        THEN TextResult(llm_result.text,
                        Min(best_score * llm_result.confidence, Frac(100)),
                        llm_result.is_ambiguous,
                        IF llm_result.is_ambiguous THEN candidates ELSE <<>>,
                        TRUE)
        ELSE TextResult(best_match.text, Min(Frac(best_score), Frac(100)), FALSE, <<>>,
                        need_llm_confirm)

CalibrateText(found, reply) ==
    /\ out = NoCall
    /\ out' = [op |-> "calibrate_text", raw_text |-> RawText, found |-> found,
               reply |-> reply, result |-> calibrate_text(RawText, found, reply)]
    /\ prev' = NoCall
    /\ UNCHANGED <<HAS_PYPINYIN, index, fed, building, pc, registry, trie_state>>

NextText ==
    \/ \E found \in VectorFound, reply \in Replies : CalibrateText(found, reply)
    \/ Done

SpecText == Init /\ [][NextText]_vars

-----------------------------------------------------------------------------
(* SkillRegistry of backend/app/services/skill_registry.py                   *)

MaxSkills == 2             \* skills in the registry when create_skill is called

\* Skill
Skill(id, name, category, schema, description, keywords, created_at) ==
    [id |-> id, name |-> name, category |-> category, schema |-> schema,
     description |-> description, keywords |-> keywords, created_at |-> created_at]

\* JSON values
JString(s) == [json |-> "string", value |-> s]
JArray(items) == [json |-> "array", items |-> items]
JObject(members) == [json |-> "object", members |-> members]

\* json.dump of one column of a schema, and json.load of it
DumpColumn(c) ==
    JObject([key |-> JString(c.key), title |-> JString(c.title), type |-> JString(c.type)])
LoadColumn(j) ==
    [key |-> j.members.key.value, title |-> j.members.title.value,
     type |-> j.members.type.value]

\* Skill.to_dict without the keywords
to_dict_without_keywords(skill) ==
    [id |-> skill.id, name |-> skill.name, category |-> skill.category,
     schema |-> skill.schema, description |-> skill.description,
     keywords |-> <<>>, created_at |-> skill.created_at]

\* Skill.to_dict: dataclasses.asdict
to_dict(skill) ==
    [id |-> skill.id, name |-> skill.name, category |-> skill.category,
     schema |-> skill.schema, description |-> skill.description,
     keywords |-> skill.keywords, created_at |-> skill.created_at]

\* json.dump of the dict of one skill
DumpSkill(d) ==
    JObject([id |-> JString(d.id), name |-> JString(d.name),
             category |-> JString(d.category),
             schema |-> JArray([i \in 1..Len(d.schema) |-> DumpColumn(d.schema[i])]),
             description |-> JString(d.description),
             keywords |-> JArray([i \in 1..Len(d.keywords) |-> JString(d.keywords[i])]),
             created_at |-> JString(d.created_at)])

\* Skill.from_dict of json.load of one skill
from_dict(j) ==
    LET m == j.members
    IN  Skill(m.id.value, m.name.value, m.category.value,
              [i \in 1..Len(m.schema.items) |-> LoadColumn(m.schema.items[i])],
              m.description.value,
              [i \in 1..Len(m.keywords.items) |-> m.keywords.items[i].value],
              m.created_at.value)

\* SkillRegistry._save_to_file: the file after the call
_save_to_file(registry_skills) ==
    [exists |-> TRUE,
     data |-> [sid \in DOMAIN registry_skills |-> DumpSkill(to_dict(registry_skills[sid]))]]

\* SkillRegistry._load_from_file: self.skills after the call
_load_from_file(registry_skills, file) ==
    IF ~file.exists THEN registry_skills
    ELSE [sid \in DOMAIN registry_skills \cup DOMAIN file.data |->
             IF sid \in DOMAIN file.data THEN from_dict(file.data[sid])
             ELSE registry_skills[sid]]

\* name.lower().replace(' ', '_')
IdPart(name) == [i \in 1..Len(name) |-> IF name[i] = Space THEN "_" ELSE LowerChar(name[i])]

\* f"skill_{...}_{len(self.skills)}"
SkillId(name, n) == <<"skill", "_">> \o IdPart(name) \o <<"_", ToString(n)>>

\* SkillRegistry.create_skill: self.skills and the file after the call
create_skill(reg, name, category, schema, description, keywords, now) ==
    LET skill_id == SkillId(name, Cardinality(DOMAIN reg.skills))
        skill == Skill(skill_id, name, category, schema, description, keywords, now)
        after == Put(reg.skills, skill_id, skill)
    IN  [skills |-> after, file |-> _save_to_file(after)]

\* SkillRegistry.delete_skill: self.skills and the file after the call, and
\* the value returned
delete_skill(reg, skill_id) ==
    IF skill_id \in DOMAIN reg.skills
    THEN LET after == [sid \in DOMAIN reg.skills \ {skill_id} |-> reg.skills[sid]]
         IN  [skills |-> after, file |-> _save_to_file(after), returned |-> TRUE]
    ELSE [skills |-> reg.skills, file |-> reg.file, returned |-> FALSE]

Column(key, title, type) == [key |-> key, title |-> title, type |-> type]

\* SkillRegistry._register_default_skills; the Chinese texts are named by
\* their readings
_register_default_skills(reg, now) ==
    LET r1 == create_skill(reg, <<"[nongchanpin dingdan]">>, "product",
                  <<Column("product", "[shangpinming]", "text"),
                    Column("quantity", "[shuliang]", "number"),
                    Column("unit", "[danwei]", "text"),
                    Column("price", "[danjia]", "number"),
                    Column("total", "[jine]", "number")>>,
                  "[nongchanpin caigou/xiaoshou dingdan]",
                  <<"[shuiguo]", "[shucai]", "[nongchanpin]", "[shengxian]">>, now)
        r2 == create_skill(r1, <<"[tongyong dingdan]">>, "general",
                  <<Column("item", "[xiangmu]", "text"),
                    Column("quantity", "[shuliang]", "number"),
                    Column("unit", "[danwei]", "text"),
                    Column("price", "[danjia]", "number"),
                    Column("remark", "[beizhu]", "text")>>,
                  "[tongyong dingdan muban]",
                  <<"[dingdan]", "[caigou]", "[xiaoshou]">>, now)
    IN  create_skill(r2, <<"[kehu liebiao]">>, "customer",
            <<Column("name", "[kehu mingcheng]", "text"),
              Column("contact", "[lianxiren]", "text"),
              Column("phone", "[dianhua]", "text"),
              Column("address", "[dizhi]", "text")>>,
            "[kehu xinxi guanli]",
            <<"[kehu]", "[lianxiren]", "[shanghu]">>, now)

\* SkillRegistry.initialize of a registry that is not initialized
initialize(reg, now) ==
    LET loaded == [skills |-> _load_from_file(reg.skills, reg.file), file |-> reg.file]
    IN  IF DOMAIN loaded.skills = {} THEN _register_default_skills(loaded, now) ELSE loaded

\* the readings of datetime.now().isoformat()
Clock == {"t1", "t2"}

SkillNames == { <<"a">>, <<"A">>, <<"a", Space, "b">>, <<"a", "_", "b">> }

\* the schema the tests create skills with
TestSchema == <<Column("test", "Test", "text")>>

Initialize(now) ==
    /\ ~_initialized
    /\ LET r == initialize([skills |-> skills, file |-> storage], now)
       IN  /\ skills' = r.skills
           /\ storage' = r.file
    /\ _initialized' = TRUE
    /\ fresh' = NoRegistry
    /\ UNCHANGED <<HAS_PYPINYIN, index, fed, out, prev, building, pc, trie_state>>

CreateSkill(name, keywords, now) ==
    /\ Cardinality(DOMAIN skills) < MaxSkills
    /\ LET r == create_skill([skills |-> skills, file |-> storage], name, "general",
                             TestSchema, "", keywords, now)
       IN  /\ skills' = r.skills
           /\ storage' = r.file
    /\ fresh' = NoRegistry
    /\ UNCHANGED <<HAS_PYPINYIN, index, fed, out, prev, building, pc, _initialized, trie_state>>

DeleteSkill(skill_id) ==
    /\ LET r == delete_skill([skills |-> skills, file |-> storage], skill_id)
       IN  /\ skills' = r.skills
           /\ storage' = r.file
    /\ fresh' = NoRegistry
    /\ UNCHANGED <<HAS_PYPINYIN, index, fed, out, prev, building, pc, _initialized, trie_state>>

\* SkillRegistry(storage_path) on the same path, then initialize()
Reload(now) ==
    /\ ~fresh.made
    /\ LET r == initialize([skills |-> EmptyDict, file |-> storage], now)
       IN  /\ fresh' = [made |-> TRUE, skills |-> r.skills]
           /\ storage' = r.file
    /\ UNCHANGED <<HAS_PYPINYIN, index, fed, out, prev, building, pc, skills, _initialized, trie_state>>

NextSkills ==
    \/ \E now \in Clock : Initialize(now)
    \/ \E name \in SkillNames, keywords \in {<<>>, <<"apple">>}, now \in Clock :
           CreateSkill(name, keywords, now)
    \/ \E sid \in DOMAIN skills \cup {<<"non_existent">>} : DeleteSkill(sid)
    \/ \E now \in Clock : Reload(now)

SpecSkills == Init /\ [][NextSkills]_vars

-----------------------------------------------------------------------------
(* A Trie on its own                                                         *)

MaxInserts == 3            \* distinct (word, id) pairs inserted in one run

Words == { <<>>, <<"a">>, <<"a", "b">>, <<"a", "b", "c">>, <<"b">>, <<"b", "a">> }

\* the strings search_prefix and exact_match are called with, among them
\* strings that are no word and no prefix of a word
Probes == Words \cup { <<"a", "b", "c", "d">>, <<"c">>, <<"a", "c">> }

TrieIds == {1, 2}

Insert(word, product_id) ==
    /\ trie_out = NoCall
    /\ Cardinality(inserted \cup {<<word, product_id>>}) <= MaxInserts
    /\ trie' = TrieInsert(trie, word, product_id)
    /\ inserted' = inserted \cup {<<word, product_id>>}
    /\ UNCHANGED <<HAS_PYPINYIN, index, fed, out, prev, building, pc, registry, trie_out>>

SearchPrefix(prefix) ==
    /\ trie_out = NoCall
    /\ trie_out' = [op |-> "search_prefix", arg |-> prefix, ids |-> search_prefix(trie, prefix)]
    /\ UNCHANGED <<HAS_PYPINYIN, index, fed, out, prev, building, pc, registry, trie, inserted>>

ExactMatch(word) ==
    /\ trie_out = NoCall
    /\ trie_out' = [op |-> "exact_match", arg |-> word, ids |-> exact_match(trie, word)]
    /\ UNCHANGED <<HAS_PYPINYIN, index, fed, out, prev, building, pc, registry, trie, inserted>>

TrieDone ==
    /\ trie_out # NoCall
    /\ trie_out' = NoCall
    /\ UNCHANGED <<HAS_PYPINYIN, index, fed, out, prev, building, pc, registry, trie, inserted>>

NextTrie ==
    \/ \E word \in Words, i \in TrieIds : Insert(word, i)
    \/ \E p \in Probes : SearchPrefix(p)
    \/ \E w \in Probes : ExactMatch(w)
    \/ TrieDone

SpecTrie == Init /\ [][NextTrie]_vars

-----------------------------------------------------------------------------
(* Properties *)

\* the entities of the catalog
Entities == {products[i] : i \in DOMAIN products}

SearchReturned == out.op = "search" /\ out.status = "ok"

CalibrateReturned == out.op = "calibrate" /\ out.status = "ok"

IsPrefix(q, name) == Len(q) <= Len(name) /\ SubSeq(name, 1, Len(q)) = q

NonIncreasing(results) ==
    \A i, j \in 1..Len(results) : i < j => results[i].score >= results[j].score

\* C1: after search(n, limit) with no category, where n is the non-empty name
\* of a catalog entity e, the call has returned a list whose first element is
\* e, with match_type exact and score >= 0.99.
C1_NameSearchReturnsEntityFirst ==
    (/\ out.op = "search"
     /\ out.category = None
     /\ out.query # <<>>)
    => \A e \in Entities :
           e.name = out.query
           => /\ out.status = "ok"
              /\ out.results # <<>>
              /\ out.results[1].product = e
              /\ out.results[1].match_type = "exact"
              /\ out.results[1].score >= Pct(99)

\* C2: the list search returns is ordered by non-increasing score, on every
\* return path.
C2_ResultsSortedByScore == SearchReturned => NonIncreasing(out.results)

\* the tier whose rule an entity satisfies for a query
MatchesExact(p, q) ==
    \/ p.name = q
    \/ p.name_lower = lower(q)
    \/ isdigit(q) /\ IntParses(q) /\ p.id = IntValue(q)
    \/ p.code # <<>> /\ p.code = q

MatchesContains(p, q) ==
    \/ Len(q) >= 2 /\ IsSubstring(q, p.name)
    \/ CharsOf(q) \subseteq CharsOf(p.name)

MatchesPinyin(p, q) ==
    /\ HAS_PYPINYIN
    /\ \/ IsPrefix(Concat(lazy_pinyin(q)), p.name_pinyin)
       \/ Len(q) <= 6 /\ IsPrefix(Take(Concat(lazy_pinyin(q)), Len(q)), p.name_initials)

FuzzySimilar(p, q) ==
    LET max_len == Max(Len(q), Len(p.name))
    IN  /\ Len(q) >= 2
        /\ CharsOf(q) \cap CharsOf(p.name) # {}
        /\ 2 * (max_len - _levenshtein_distance(q, p.name)) > max_len

BestTier(p, q) ==
    IF MatchesExact(p, q) THEN "exact"
    ELSE IF IsPrefix(q, p.name) THEN "prefix"
    ELSE IF MatchesContains(p, q) THEN "contains"
    ELSE IF MatchesPinyin(p, q) THEN "pinyin"
    ELSE IF FuzzySimilar(p, q) THEN "fuzzy"
    ELSE "none"

\* C3: no entity id appears twice in the list search returns, and every entity
\* in it carries the match_type of the highest-priority tier (exact, prefix,
\* contains, phonetic, fuzzy) whose rule it satisfies for the query.
C3_NoDuplicateFirstTierWins ==
    SearchReturned
    => /\ \A i, j \in 1..Len(out.results) :
              i # j => out.results[i].product.id # out.results[j].product.id
       /\ \A i \in 1..Len(out.results) :
              out.results[i].match_type = BestTier(out.results[i].product, out.query)

\* C4: every result of search(q, limit, category=C) is an entity whose primary
\* category is C, whether or not any entity carries C.
C4_ResultsInCategory ==
    (SearchReturned /\ out.category # None)
    => \A i \in 1..Len(out.results) : out.results[i].product.category = out.category

AllSpaces(s) == \A i \in 1..Len(s) : s[i] = Space

\* the text with its leading and trailing spaces removed
Trimmed(s) ==
    IF AllSpaces(s) THEN <<>>
    ELSE LET first == CHOOSE i \in 1..Len(s) : s[i] # Space /\ \A j \in 1..(i - 1) : s[j] = Space
             last == CHOOSE i \in 1..Len(s) : s[i] # Space /\ \A j \in (i + 1)..Len(s) : s[j] = Space
         IN  SubSeq(s, first, last)

\* C5: after calibrate(x) with no category, where the trimmed x is the
\* non-empty name of a catalog entity e, the call has returned calibrated = e.name, match_type
\* exact, confidence >= 0.99, is_ambiguous false and no candidates.
C5_ExactNameCalibratesExactly ==
    (/\ out.op = "calibrate"
     /\ out.category = None
     /\ Trimmed(out.text) # <<>>
     /\ \E e \in Entities : e.name = Trimmed(out.text))
    => /\ out.status = "ok"
       /\ out.result.calibrated = Trimmed(out.text)
       /\ out.result.match_type = "exact"
       /\ out.result.confidence >= Pct(99)
       /\ ~out.result.is_ambiguous
       /\ out.result.candidates = <<>>

\* C6: in every CalibrationResult calibrate returns, is_ambiguous implies at
\* least 2 candidates, and not is_ambiguous implies no candidates.
C6_AmbiguousIffCandidates ==
    CalibrateReturned
    => /\ out.result.is_ambiguous => Len(out.result.candidates) >= 2
       /\ ~out.result.is_ambiguous => out.result.candidates = <<>>

C6_Witness ==
    /\ CalibrateReturned
    /\ out.result.is_ambiguous
    /\ Len(out.result.candidates) = 3

\* what search returned to the last calibrate call (the index is as it was)
Found == search(Trimmed(out.text), CalibrateLimit, out.category)

\* C7: when the top-1 search result is not an exact match, is_ambiguous holds
\* exactly when a second result exists and score[0] - score[1] < 0.15; then
\* candidates are the names of the first min(3, n) search results, these are
\* in non-increasing score order, and the top-1 and top-2 names are among them.
C7_AmbiguityRule ==
    (/\ CalibrateReturned
     /\ out.searched
     /\ Found.results # <<>>
     /\ Found.results[1].match_type # "exact")
    => LET results == Found.results
           n == Min(3, Len(results))
       IN  /\ out.result.is_ambiguous
               <=> (Len(results) > 1 /\ results[1].score - results[2].score < Pct(15))
           /\ out.result.is_ambiguous
               => /\ out.result.candidates = [i \in 1..n |-> results[i].product.name]
                  /\ NonIncreasing(SubSeq(results, 1, n))
                  /\ \E i \in 1..n : out.result.candidates[i] = results[1].product.name
                  /\ \E i \in 1..n : out.result.candidates[i] = results[2].product.name

\* C8: after search(c) with the default limit and no category, where c is the
\* non-empty code of a catalog entity e, the returned list holds e with score
\* 1.0 and match_type exact.
C8_CodeSearchScoresOne ==
    (/\ out.op = "search"
     /\ out.limit = DefaultLimit
     /\ out.category = None)
    => \A e \in Entities :
           (e.code # <<>> /\ e.code = out.query)
           => /\ out.status = "ok"
              /\ \E i \in 1..Len(out.results) :
                     /\ out.results[i].product = e
                     /\ out.results[i].score = Pct(100)
                     /\ out.results[i].match_type = "exact"

C10_EmptyTextNotFound ==
    (out.op = "calibrate" /\ AllSpaces(out.text))
    => /\ out.status = "ok"
       /\ out.result.product = <<>>
       /\ out.result.confidence = 0
       /\ ~out.result.is_ambiguous
       /\ out.result.candidates = <<>>
       /\ out.result.calibrated = out.text
       /\ ~out.searched

C10_Witness ==
    /\ out.op = "calibrate"
    /\ out.text = <<Space>>
    /\ total_count > 0
    /\ out.result.match_type = "none"

\* C11: search, calibrate and batch_calibrate are total: in every index state
\* add_product calls can build, for every query, text, limit and category,
\* the call returns a result and raises nothing.
C11_QueriesTotal == out.op \in {"search", "calibrate"} => out.status = "ok"

\* C12: every score in a list search returns lies in [0, 1], and so does the
\* confidence of every result calibrate returns.
C12_ScoresInUnitInterval ==
    /\ SearchReturned
       => \A i \in 1..Len(out.results) :
              out.results[i].score >= 0 /\ out.results[i].score <= Pct(100)
    /\ CalibrateReturned
       => out.result.confidence >= 0 /\ out.result.confidence <= Pct(100)

\* the query is longer than the name sharing its characters: the cap applies
C12_Witness ==
    /\ SearchReturned
    /\ \E i \in 1..Len(out.results) :
           /\ out.results[i].match_type = "contains"
           /\ Len(out.query) > Len(out.results[i].product.name)
           /\ out.results[i].score = Pct(70)

\* a comes before b in the order by (score descending, name length, id)
Precedes(a, b) ==
    \/ a.score > b.score
    \/ /\ a.score = b.score
       /\ \/ Len(a.product.name) < Len(b.product.name)
          \/ /\ Len(a.product.name) = Len(b.product.name)
             /\ a.product.id <= b.product.id

\* C13: the list search returns is ordered by descending score, equal scores
\* by shorter name first, equal scores and name lengths by lower id first,
\* whatever the insertion order and the tier of each result.
C13_OrderByScoreLengthId ==
    SearchReturned
    => \A i, j \in 1..Len(out.results) :
           i < j => Precedes(out.results[i], out.results[j])

\* the catalog of the scenario: the three apple names, each added once
ApplesCatalog ==
    /\ total_count = Cardinality(DOMAIN products)
    /\ {products[i].name : i \in DOMAIN products}
           = {HongFuShiPingGuo, HuangJinFuShiPingGuo, QingPingGuo}

\* C14: with the catalog of the three apple names, calibrate of the first name
\* with one character altered returns calibrated = that first name, match_type
\* contains or fuzzy, confidence strictly between 0.5 and 0.95, and
\* is_ambiguous false.
C14_AppleScenario ==
    (/\ ApplesCatalog
     /\ out.op = "calibrate"
     /\ out.text = HongFuTuPingGuo
     /\ out.category = None)
    => /\ out.status = "ok"
       /\ out.result.calibrated = HongFuShiPingGuo
       /\ out.result.match_type \in {"contains", "fuzzy"}
       /\ out.result.confidence > Pct(50)
       /\ out.result.confidence < Pct(95)
       /\ ~out.result.is_ambiguous

C14_Witness ==
    /\ ApplesCatalog
    /\ CalibrateReturned
    /\ out.text = HongFuTuPingGuo
    /\ out.category = None
    /\ out.result.match_type = "fuzzy"
    /\ out.result.confidence = Pct(56)

\* C15: an add_product call for an id that is already registered is rejected:
\* it leaves the store and every index as they were (the entity registered
\* under the id, its name and its code, the count, the category lists, every
\* posting and every trie node).
C15_DuplicateIdRejected ==
    [][(fed' # fed /\ Catalog[fed'].id \in DOMAIN products) => UNCHANGED index]_vars

\* the ids held by the structures of an instance other than products
IdsIndexed(ix) ==
    {ix.by_name[k].id : k \in DOMAIN ix.by_name}
    \cup {ix.by_name_lower[k].id : k \in DOMAIN ix.by_name_lower}
    \cup DOMAIN ix.by_id
    \cup {ix.by_code[k].id : k \in DOMAIN ix.by_code}
    \cup UNION {ix.name_trie[w].product_ids : w \in DOMAIN ix.name_trie}
    \cup UNION {ix.pinyin_trie[w].product_ids : w \in DOMAIN ix.pinyin_trie}
    \cup UNION {ix.initials_trie[w].product_ids : w \in DOMAIN ix.initials_trie}
    \cup UNION {ix.char_index[c] : c \in DOMAIN ix.char_index}
    \cup UNION {ix.bigram_index[b] : b \in DOMAIN ix.bigram_index}
    \cup UNION {{ix.by_category[c][i] : i \in 1..Len(ix.by_category[c])} :
                    c \in DOMAIN ix.by_category}

\* every entity is in all the structures or in none
IndexComplete(ix) ==
    /\ IdsIndexed(ix) \subseteq DOMAIN ix.products
    /\ \A i \in DOMAIN ix.products :
           LET p == ix.products[i]
           IN  /\ p.name \in DOMAIN ix.by_name
               /\ ix.by_id[i] = p
               /\ p.name # <<>> => i \in search_prefix(ix.name_trie, p.name)
               /\ \A c \in CharsOf(p.name) : i \in ix.char_index[c]
               /\ p.category # "" => p.category \in DOMAIN ix.by_category

\* C16: while a rebuild fills a new instance, at any point between or inside
\* its add_product calls, the instance search and calibrate read is a
\* complete catalog: no entity is in some of its structures and not in
\* products; it changes only when the complete new instance replaces it.
C16_ReadersSeeCompleteCatalog == IndexComplete(ActiveIndex)

C16_Witness ==
    /\ pc = "tries"
    /\ total_count > 0
    /\ SearchReturned
    /\ out.results # <<>>

\* C17: search, calibrate, batch_calibrate, get_by_id, get_by_name,
\* get_by_category, get_categories and stats leave every index structure as it
\* was, also for characters, bigrams and categories that are not in the index.
C17_QueriesReadOnly == [][out'.op # "none" => UNCHANGED index]_vars

\* a search with a character that is not in the index has gone through the
\* single-character step, and a category that is not in the index was read
C17_Witness ==
    \/ /\ SearchReturned
       /\ total_count > 0
       /\ \E i \in 1..Len(out.query) : out.query[i] \notin DOMAIN char_index
       /\ out.path = "sorted"
    \/ /\ out.op = "get_by_category"
       /\ out.category \notin DOMAIN by_category

\* what calibrate_text returns when it does not escalate: the top-1 text with
\* the top-1 score
DefaultDecision(found) ==
    [text |-> found.results[1].text,
     confidence |-> Frac(found.results[1].combined_score),
     is_ambiguous |-> FALSE,
     candidates |-> <<>>]

Decision(result) ==
    [text |-> result.text, confidence |-> result.confidence,
     is_ambiguous |-> result.is_ambiguous, candidates |-> result.candidates]

\* C18: when the call of the calibration model raises, times out or returns a
\* reply that cannot be parsed, calibrate_text returns the non-escalated
\* result: the top-1 text with the top-1 score as confidence.
C18_EscalationFailureKeepsDefault ==
    (/\ out.op = "calibrate_text"
     /\ out.result.escalated
     /\ out.reply.kind # "json")
    => Decision(out.result) = DefaultDecision(out.found)

C18_Witness ==
    /\ out.op = "calibrate_text"
    /\ out.result.escalated
    /\ out.reply.kind = "timeout"
    /\ Len(out.found.results) > 1
    /\ out.result.text = Names[1]

\* C19: a low-confidence reply, or the reply that no candidate matches, is
\* ignored: calibrate_text returns the text, confidence and ambiguity flag of
\* the default top-1 decision; a confidently returned choice overrides the
\* top-1 pick, with the top-1 score times the reply's confidence as confidence.
C19_LowConfidenceReplyIgnored ==
    (/\ out.op = "calibrate_text"
     /\ out.result.escalated
     /\ out.reply.kind = "json")
    => IF /\ out.reply.choice \in 1..Min(Len(out.found.results), TextCandidates)
          /\ out.reply.confidence >= StillAmbiguous
       THEN /\ out.result.text = out.found.results[out.reply.choice].text
            /\ out.result.confidence
                   = out.found.results[1].combined_score * out.reply.confidence
       ELSE Decision(out.result) = DefaultDecision(out.found)

\* C20 as stated: after any sequence of create_skill and delete_skill calls, a
\* fresh registry on the same storage path, initialized, holds exactly the
\* skills of the first registry, also when there are none.
C20_SkillsRoundTrip == fresh.made => fresh.skills = skills

\* C20 amended: the fresh registry holds exactly the skills of the first
\* registry when there is at least one; when there are none it holds the three
\* default skills.
C20_SkillsRoundTripUnlessEmpty ==
    fresh.made
    => IF DOMAIN skills # {} THEN fresh.skills = skills
       ELSE \E now \in Clock :
                fresh.skills
                    = _register_default_skills([skills |-> EmptyDict, file |-> NoFile], now).skills

\* two skills made by create_skill, one with keywords, and reloaded
C20_Witness ==
    /\ fresh.made
    /\ ~_initialized
    /\ Cardinality(DOMAIN skills) = MaxSkills
    /\ \E sid \in DOMAIN skills : skills[sid].keywords # <<>>

\* the call's category filter lets the entity through
PassesFilter(e) ==
    LET cf == CategoryFilter(out.category) IN Filtering(cf) => e.id \in cf.ids

\* the entity matches the query in the tier
MatchesTier(e, q, tier) ==
    CASE tier = "prefix" -> IsPrefix(q, e.name)
      [] tier = "contains" -> e.name # <<>> /\ MatchesContains(e, q)
      [] tier = "pinyin" -> MatchesPinyin(e, q)

\* the score the tier gives the entity
TierScore(e, q, tier) ==
    CASE tier = "prefix" -> PrefixScore(q, e)
      [] tier = "contains" ->
             IF Len(q) >= 2 /\ IsSubstring(q, e.name) THEN ContainsScore(q, e)
             ELSE CharScore(q, e)
      [] tier = "pinyin" ->
             IF IsPrefix(Concat(lazy_pinyin(q)), e.name_pinyin)
             THEN PinyinScore(Concat(lazy_pinyin(q)), e)
             ELSE Pct(50)

\* C21: in the list search returns, no entity that matches in a tier (prefix,
\* contains, pinyin) and is left out of the list has a strictly higher score
\* in that tier than an entity of the same tier that is in the list.
C21_TierKeepsHighestScores ==
    SearchReturned
    => \A i \in 1..Len(out.results) : \A e \in Entities :
           LET r == out.results[i]
           IN  (/\ r.match_type \in {"prefix", "contains", "pinyin"}
                /\ \A j \in 1..Len(out.results) : out.results[j].product.id # e.id
                /\ PassesFilter(e)
                /\ MatchesTier(e, out.query, r.match_type))
               => TierScore(e, out.query, r.match_type) <= r.score

\* C22: in every list search returns, no result with match_type contains has
\* a strictly higher score, or an earlier position, than a result with
\* match_type prefix or exact.
C22_ContainsNeverOutranks ==
    SearchReturned
    => \A i, j \in 1..Len(out.results) :
           (/\ out.results[i].match_type = "contains"
            /\ out.results[j].match_type \in {"prefix", "exact"})
           => /\ out.results[i].score <= out.results[j].score
              /\ j < i

\* C23: every result of search with match_type contains has a score in
\* [0.50, 0.90], from the bigram step and from the single-character step.
C23_ContainsScoreRange ==
    SearchReturned
    => \A i \in 1..Len(out.results) :
           out.results[i].match_type = "contains"
           => /\ Pct(50) <= out.results[i].score
              /\ out.results[i].score <= Pct(90)

\* the edit distance with unit-cost insert, delete and substitute
RECURSIVE EditDistance(_, _)
EditDistance(a, b) ==
    IF a = <<>> THEN Len(b)
    ELSE IF b = <<>> THEN Len(a)
    ELSE Min(EditDistance(Tail(a), Tail(b)) + (IF Head(a) = Head(b) THEN 0 ELSE 1),
             Min(EditDistance(Tail(a), b) + 1, EditDistance(a, Tail(b)) + 1))

Holders(keys(_), k) == {i \in DOMAIN products : k \in keys(products[i].name)}

\* the postings of an inverted index are exactly the holders of each key
PostingsExact(idx, keys(_)) ==
    /\ \A k \in DOMAIN idx : idx[k] = Holders(keys, k)
    /\ \A i \in DOMAIN products : keys(products[i].name) \subseteq DOMAIN idx

\* every id an index holds
IndexedIds ==
    UNION ({bigram_index[b] : b \in DOMAIN bigram_index}
           \cup {char_index[c] : c \in DOMAIN char_index}
           \cup {name_trie[p].product_ids : p \in DOMAIN name_trie}
           \cup {pinyin_trie[p].product_ids : p \in DOMAIN pinyin_trie}
           \cup {initials_trie[p].product_ids : p \in DOMAIN initials_trie}
           \cup {{by_category[c][i] : i \in 1..Len(by_category[c])} : c \in DOMAIN by_category})

\* C25: after any sequence of add_product calls, bigram_index[b] is exactly
\* the set of ids of stored entities whose current name contains the bigram b,
\* char_index[c] is exactly the set of ids of stored entities whose current
\* name contains the character c, and every id in a posting, a trie node or a
\* category list is the id of a stored entity.
C25_PostingsExact ==
    /\ PostingsExact(bigram_index, BigramsOf)
    /\ PostingsExact(char_index, CharsOf)
    /\ IndexedIds \subseteq DOMAIN products

\* C26: after any sequence of Trie.insert(word, id) calls, search_prefix(p) of
\* a non-empty p is the set of the ids inserted with a word that has p as a
\* prefix, and exact_match(w) is non-empty only if w was inserted as a word.
C26_TrieAnswers ==
    /\ (trie_out.op = "search_prefix" /\ trie_out.arg # <<>>)
       => trie_out.ids = {c[2] : c \in {x \in inserted : IsPrefix(trie_out.arg, x[1])}}
    /\ (trie_out.op = "exact_match" /\ trie_out.ids # {})
       => \E c \in inserted : c[1] = trie_out.arg

\* search_prefix of a proper prefix of two inserted words returned both ids
C26_Witness ==
    /\ trie_out.op = "search_prefix"
    /\ Cardinality(trie_out.ids) = 2
    /\ \A c \in inserted : c[1] # trie_out.arg

\* what search returns for the text of the last calibrate call as it was given
FoundForText == search(out.text, CalibrateLimit, out.category)

\* C27: for every text with at least one search result, the confidence of
\* calibrate is the maximum score among the results of search(x, limit=5,
\* category), and calibrated is the name of a result with that score.
C27_CalibratePicksBest ==
    (/\ out.op = "calibrate"
     /\ FoundForText.status = "ok"
     /\ FoundForText.results # <<>>)
    => LET results == FoundForText.results
       IN  /\ out.status = "ok"
           /\ \A i \in 1..Len(results) : results[i].score <= out.result.confidence
           /\ \E i \in 1..Len(results) :
                  /\ results[i].score = out.result.confidence
                  /\ results[i].product.name = out.result.calibrated

\* C28: every result of search with match_type contains is an entity whose
\* name contains the query as a contiguous substring, and every result with
\* match_type prefix is an entity whose name starts with the query.
C28_ContainsAndPrefixMeanWhatTheySay ==
    SearchReturned
    => \A i \in 1..Len(out.results) :
           LET r == out.results[i]
           IN  /\ r.match_type = "contains" => IsSubstring(out.query, r.product.name)
               /\ r.match_type = "prefix" => IsPrefix(out.query, r.product.name)

\* C29: the number of results of search is monotone in limit: when search
\* with a larger limit returns n results, search with the limit L returns
\* exactly min(L, n) results.
C29_ResultCountMonotoneInLimit ==
    SearchReturned
    => \A larger \in Limits :
           LET more == search(out.query, larger, out.category)
           IN  (larger > out.limit /\ more.status = "ok")
               => Len(out.results) = Min(out.limit, Len(more.results))

\* the first registry as create_skill and delete_skill find it
Registry == [skills |-> skills, file |-> storage]

UnknownSkill == <<"non_existent">>

\* C30: every create_skill call adds exactly one new skill: the id of the
\* returned skill is the id of no skill already in the registry, the number of
\* skills grows by one and no existing skill is replaced; delete_skill of an
\* existing id removes exactly that skill and returns True, and delete_skill
\* of an unknown id returns False and changes nothing.
C30_CreateAddsOneDeleteRemovesOne ==
    [][/\ \A name \in SkillNames, keywords \in {<<>>, <<"apple">>}, now \in Clock :
              CreateSkill(name, keywords, now)
              => /\ SkillId(name, Cardinality(DOMAIN skills)) \notin DOMAIN skills
                 /\ Cardinality(DOMAIN skills') = Cardinality(DOMAIN skills) + 1
                 /\ \A sid \in DOMAIN skills :
                        sid \in DOMAIN skills' /\ skills'[sid] = skills[sid]
       /\ \A sid \in DOMAIN skills \cup {UnknownSkill} :
              DeleteSkill(sid)
              => IF sid \in DOMAIN skills
                 THEN /\ DOMAIN skills' = DOMAIN skills \ {sid}
                      /\ \A other \in DOMAIN skills' : skills'[other] = skills[other]
                      /\ delete_skill(Registry, sid).returned
                 ELSE /\ skills' = skills
                      /\ storage' = storage
                      /\ ~delete_skill(Registry, sid).returned
      ]_vars
====
